---- MODULE Spec2Model ----
(***************************************************************************)
(* Reddit Data Tool (src/script.js, the version that starts at line 464,   *)
(* with the visualization module).                                         *)
(*                                                                         *)
(* The model covers the comment pipeline: the export life cycle            *)
(* (startExport, the XMLHttpRequest load handler), the Flattener           *)
(* (buildTableData), the Sorter (sortTable, compareArray) and the          *)
(* Hierarchy Rebuilder (buildNodeDictionary, buildHierarchyFromDict,       *)
(* computeCounts).                                                         *)
(*                                                                         *)
(* JavaScript values are modelled as follows.                              *)
(*   - a string is a sequence of one-character strings, so that join,      *)
(*     split, parseInt, toLowerCase and the < of strings are computed and  *)
(*     not assumed;                                                        *)
(*   - an object is a record; a property that is undefined is a field      *)
(*     that is not in the record's DOMAIN;                                 *)
(*   - a value that may be null is <<>> (null) or <<v>>;                   *)
(*   - an object that is shared by reference (a hierarchy node) is named   *)
(*     by its key in a heap, here the node dictionary.                     *)
(***************************************************************************)
EXTENDS Integers, Sequences, FiniteSets, TLC

VARIABLES
    http,               \* the one XMLHttpRequest: readyState and response
    tableData,          \* the flat sequence of Comment Records
    tableBuilt,         \* set by renderTable, cleared by startExport
    postInfo,           \* null or the Post Record
    selectedDateFormat, \* user preference, read by startExport
    isCompactMode,      \* user preference, read by startExport
    removeNewlines,     \* user preference, read by startExport
    sortAsc,            \* the process-wide sort-direction flag
    vizRoot,            \* the hierarchy the handler that ran last has built
    sortLog,            \* history: the last successful sort on this table
    sortParity,         \* history: number of successful sorts since page load, mod 2
    cmpArgs,            \* the arguments of the last call of the comparator harness
    cmpResult,          \* its results
    network,            \* the requests of http that the network is still serving
    requested,          \* the url of the last request, none before the first
    effect,             \* the alert and the output of the handler that ran last
    prior               \* history: what the last startExport found

vars == << http, tableData, tableBuilt, postInfo, selectedDateFormat,
           isCompactMode, removeNewlines, sortAsc, vizRoot, sortLog,
           sortParity, cmpArgs, cmpResult, network, requested, effect, prior >>

----------------------------------------------------------------------------
(* Bounds of the model *)

\* nodes (comments and stubs) of a comment tree in the Flattener check
MaxNodes == 4
\* nodes (comments and stubs) of a response in the program's state machine
MaxComments == 3
\* segments of a numbering in the comparator check
MaxLen == 2
\* largest segment of a numbering in the comparator check
MaxSeg == 10
\* records of a flat sequence in the Rebuilder check
MaxRecords == 3

----------------------------------------------------------------------------
(* Strings *)

null == << >>

Some(v) == << v >>

\* The characters the model uses, in increasing order of their UTF-16 code
\* unit: '.' 46, '0'..'9' 48..57, 'A' 65, 'B' 66, '[' 91, ']' 93, 'a' 97,
\* 'b' 98, 'd' 100, 'e' 101, 'l' 108, 't' 116.
CodeOrder ==
    << ".", "0", "1", "2", "3", "4", "5", "6", "7", "8", "9",
       "A", "B", "[", "]", "a", "b", "d", "e", "l", "t" >>

CharCode(ch) == CHOOSE i \in DOMAIN CodeOrder : CodeOrder[i] = ch

Digits == << "0", "1", "2", "3", "4", "5", "6", "7", "8", "9" >>

IsDigit(ch) == \E i \in DOMAIN Digits : Digits[i] = ch

DigitValue(ch) == (CHOOSE i \in DOMAIN Digits : Digits[i] = ch) - 1

\* Number.prototype.toString of a non-negative integer, as Array.prototype.join
\* applies it.
RECURSIVE NumberToString(_)
NumberToString(n) ==
    IF n < Len(Digits) THEN << Digits[n + 1] >>
    ELSE NumberToString(n \div Len(Digits)) \o << Digits[(n % Len(Digits)) + 1] >>

\* Array.prototype.join('.') of an array of numbers
RECURSIVE JoinDot(_)
JoinDot(arr) ==
    IF Len(arr) = 0 THEN << >>
    ELSE IF Len(arr) = 1 THEN NumberToString(arr[1])
    ELSE JoinDot(SubSeq(arr, 1, Len(arr) - 1)) \o << "." >>
             \o NumberToString(arr[Len(arr)])

\* String.prototype.split('.'): the pieces between the dots, at least one
RECURSIVE SplitDot(_)
SplitDot(str) ==
    IF \A i \in DOMAIN str : str[i] # "." THEN << str >>
    ELSE LET k == CHOOSE i \in DOMAIN str :
                     str[i] = "." /\ \A j \in 1..(i - 1) : str[j] # "."
         IN  << SubSeq(str, 1, k - 1) >> \o SplitDot(SubSeq(str, k + 1, Len(str)))

\* parseInt(num) of a string that starts with a digit: the value of its
\* leading run of digits, in base ten.
RECURSIVE ParseDigits(_, _, _)
ParseDigits(str, i, acc) ==
    IF i > Len(str) \/ ~IsDigit(str[i]) THEN acc
    ELSE ParseDigits(str, i + 1, acc * Len(Digits) + DigitValue(str[i]))

parseInt(str) == ParseDigits(str, 1, 0)

\* a.numbering.split('.').map(num => parseInt(num))
NumberingArray(numbering) ==
    LET parts == SplitDot(numbering)
    IN  [i \in DOMAIN parts |-> parseInt(parts[i])]

\* Array.prototype.slice(0, -1).join('.') of the split numbering
JoinStrings(parts) ==
    LET RECURSIVE J(_)
        J(k) == IF k = 0 THEN << >>
                ELSE IF k = 1 THEN parts[1]
                ELSE J(k - 1) \o << "." >> \o parts[k]
    IN  J(Len(parts))

Deleted == << "[", "d", "e", "l", "e", "t", "e", "d", "]" >>

----------------------------------------------------------------------------
(* Inputs: the Reddit JSON of a comment listing *)

Has(obj, field) == field \in DOMAIN obj

\* The data of a comment without its replies.  Reddit sends ups, downs and
\* score with every t1 node; the payloads leave out fields so that every
\* default of the Flattener is taken, and keep ups and downs where score is
\* left out (c.ups - c.downs is a number).
CommentData ==
    { [body |-> << "B" >>, author |-> << "a" >>, ups |-> 2, downs |-> 1,
       created_utc |-> 2],
      [author |-> << "b", "B" >>, score |-> 2, created_utc |-> 1],
      [body |-> << "a" >>, ups |-> 0, downs |-> 0, score |-> 0] }

\* Payloads of the Flattener check
FlatData ==
    { d \in CommentData : Has(d, "author") }

\* Payloads of the responses of the program
ExportData ==
    { d \in CommentData : Has(d, "ups") }

MoreStub == [kind |-> "more", data |-> [count |-> 1]]

Listing(children) == [data |-> [children |-> children]]

Comment(d, children) ==
    [kind |-> "t1",
     data |-> IF children = << >> THEN d
              ELSE [f \in DOMAIN d \cup {"replies"} |->
                       IF f = "replies" THEN Listing(children) ELSE d[f]]]

\* A reply listing that is present and structurally empty
EmptyReplies(d) ==
    [kind |-> "t1",
     data |-> [f \in DOMAIN d \cup {"replies"} |->
                  IF f = "replies" THEN Listing(<< >>) ELSE d[f]]]

\* The comment listings of exactly n nodes (comments and stubs), over the
\* payloads D; a leaf comment has no replies field, or an empty one when
\* emptyToo.
RECURSIVE ListingsOfSize(_, _, _)
ListingsOfSize(n, D, emptyToo) ==
    IF n = 0 THEN { << >> }
    ELSE UNION { { << first >> \o rest :
                     first \in ( IF k = 1
                                 THEN {MoreStub}
                                      \cup { Comment(d, << >>) : d \in D }
                                      \cup IF emptyToo
                                           THEN { EmptyReplies(d) : d \in D }
                                           ELSE {}
                                 ELSE { Comment(d, ch) :
                                          d \in D,
                                          ch \in ListingsOfSize(k - 1, D, emptyToo) } ),
                     rest \in ListingsOfSize(n - k, D, emptyToo) } : k \in 1..n }

ListingsUpTo(n, D, emptyToo) ==
    UNION { ListingsOfSize(k, D, emptyToo) : k \in 0..n }

----------------------------------------------------------------------------
(* The Flattener *)

\* c.body ? c.body : '[deleted]' and c.author ? c.author : '[deleted]'
StringOrDeleted(c, field) ==
    IF Has(c, field) /\ c[field] # << >> THEN c[field] ELSE Deleted

\* c.ups || 0 and c.downs || 0
NumberOrZero(c, field) ==
    IF Has(c, field) THEN c[field] ELSE 0

\* The mutant of Row that takes the level from the parent's prefix
RowLevelOfPrefix(c, numberingArray) ==
    [numbering |-> JoinDot(numberingArray),
     level     |-> Len(numberingArray) - 1,
     body      |-> StringOrDeleted(c, "body"),
     author    |-> StringOrDeleted(c, "author"),
     upvotes   |-> NumberOrZero(c, "ups"),
     downvotes |-> NumberOrZero(c, "downs"),
     score     |-> IF Has(c, "score") THEN c.score ELSE c.ups - c.downs,
     dateUtc   |-> IF Has(c, "created_utc") /\ c.created_utc # 0
                   THEN Some(c.created_utc) ELSE null]

\* const row = { numbering, level, body, author, upvotes, downvotes, score,
\* dateUtc }
Row(c, numberingArray) ==
    [numbering |-> JoinDot(numberingArray),
     level     |-> Len(numberingArray),
     body      |-> StringOrDeleted(c, "body"),
     author    |-> StringOrDeleted(c, "author"),
     upvotes   |-> NumberOrZero(c, "ups"),
     downvotes |-> NumberOrZero(c, "downs"),
     score     |-> IF Has(c, "score") THEN c.score ELSE c.ups - c.downs,
     dateUtc   |-> IF Has(c, "created_utc") /\ c.created_utc # 0
                   THEN Some(c.created_utc) ELSE null]

\* The mutant of CountAfter in which a stub consumes a sibling number
CountAfterEveryChild(child, count) == count + 1

\* The sibling counter after one child of the forEach: a 'more' stub returns
\* before count++.
CountAfter(child, count) ==
    IF child.kind = "more" THEN count ELSE count + 1

\* The mutant of PushRow that puts the row in front (unshift)
PushRowInFront(td, row) == << row >> \o td

\* tableData.push(row)
PushRow(td, row) == Append(td, row)

\* c.replies && c.replies.data && c.replies.data.children
HasReplies(c) ==
    /\ Has(c, "replies")
    /\ Has(c.replies, "data")
    /\ Has(c.replies.data, "children")

\* buildTableData(comments, prefixArr) on the flat sequence td: the flat
\* sequence when the call returns.
RECURSIVE buildTableData(_, _, _)
buildTableData(td, comments, prefixArr) ==
    LET RECURSIVE ForEach(_, _, _)
        ForEach(i, count, acc) ==
            IF i > Len(comments) THEN acc
            ELSE LET child == comments[i]
                     c == child.data
                     numberingArray == Append(prefixArr, CountAfter(child, count))
                     pushed == PushRow(acc, Row(c, numberingArray))
                 IN  IF child.kind = "more"
                     THEN ForEach(i + 1, CountAfter(child, count), acc)
                     ELSE ForEach(i + 1, CountAfter(child, count),
                                  IF HasReplies(c)
                                  THEN buildTableData(pushed, c.replies.data.children,
                                                      numberingArray)
                                  ELSE pushed)
    IN  IF Len(comments) = 0 THEN td ELSE ForEach(1, 0, td)

----------------------------------------------------------------------------
(* The export life cycle *)

\* The data of the post (response[0].data.children[0].data)
PostData ==
    { [title |-> << "a" >>, author |-> << "b" >>, ups |-> 2, downs |-> 0,
       score |-> 2, created_utc |-> 1] }

\* A response that passes the gate of the load handler
Success(post, comments) == [post |-> post, comments |-> comments]

\* Reddit's error document, {"message": ..., "error": 404}
ErrorResponse == [error |-> 404]

\* The responses a load event can deliver: none, an error document, or a
\* post with the comment listings given.
Responses(listings) ==
    {null, Some(ErrorResponse)}
        \cup { Some(Success(p, l)) : p \in PostData, l \in listings }

FlatResponses == Responses(ListingsUpTo(MaxNodes, FlatData, TRUE))

ExportResponses == Responses(ListingsUpTo(MaxComments, ExportData, FALSE))

\* !response || response.error
IsFailure(response) ==
    IF response = null THEN TRUE
    ELSE Has(response[1], "error") /\ response[1].error # 0

extractPostInfo(p) ==
    [title     |-> IF Has(p, "title") THEN p.title ELSE << >>,
     selftext  |-> IF Has(p, "selftext") THEN p.selftext ELSE << >>,
     author    |-> StringOrDeleted(p, "author"),
     permalink |-> IF Has(p, "permalink") THEN p.permalink ELSE << >>,
     ups       |-> NumberOrZero(p, "ups"),
     downs     |-> NumberOrZero(p, "downs"),
     score     |-> IF Has(p, "score") THEN p.score ELSE p.ups - p.downs,
     dateUtc   |-> IF Has(p, "created_utc") /\ p.created_utc # 0
                   THEN Some(p.created_utc) ELSE null]

DateFormats == {"iso8601", "rfc1123", "utc"}

\* The settings of the preference widgets that startExport reads
Preferences ==
    { [dateFormat |-> "utc", compactMode |-> TRUE, escapeNewLine |-> TRUE] }

NoTree == [built |-> FALSE]

\* What a handler shows and hands out: the alert it raises, if any, and the
\* file or clipboard content it produces, if any
Effect(alert, output) == [alert |-> alert, output |-> output]

Quiet == Effect("none", "none")

\* A url is named by the document Reddit serves for it: null, an error
\* document or a thread.
\* http.open() on a request that is still in flight ends its fetch without a
\* load event, and http.send() starts the fetch of the new one: the one
\* XMLHttpRequest has one pending load at most.
\* The mutant of Open that leaves the earlier fetch running
OpenKeepsPending(net, url) == net \cup {url}

Open(net, url) == {url}

\* What startExport finds before it resets the data and opens the request:
\* the table, remembered until a load succeeds, and whether a fetch is
\* pending, remembered until the new table is sorted
Found(built, data, net) ==
    [built |-> built, length |-> Len(data), pending |-> net # {}]

NoPrior == Found(FALSE, << >>, {})

\* The globals when the script has loaded
Loaded ==
    /\ http = [readyState |-> "UNSENT", response |-> null]
    /\ tableData = << >>
    /\ tableBuilt = FALSE
    /\ postInfo = null
    /\ selectedDateFormat = "iso8601"
    /\ isCompactMode = FALSE
    /\ removeNewlines = FALSE
    /\ sortAsc = TRUE
    /\ vizRoot = NoTree
    /\ sortLog = << >>
    /\ sortParity = 0
    /\ network = {}
    /\ requested = << >>
    /\ effect = Quiet
    /\ prior = NoPrior

Init ==
    /\ Loaded
    /\ cmpArgs = << >>
    /\ cmpResult = << >>

\* The mutant of StartExportNoUrl that tests the url after the reset
StartExportNoUrlResets ==
    /\ effect' = Effect("url", "none")
    /\ tableData' = << >>
    /\ tableBuilt' = FALSE
    /\ postInfo' = null
    /\ sortLog' = << >>
    /\ vizRoot' = NoTree
    /\ UNCHANGED << http, selectedDateFormat, isCompactMode, removeNewlines,
                    sortAsc, sortParity, cmpArgs, cmpResult, network,
                    requested, prior >>

\* startExport() with an empty url field: the alert, and nothing else
StartExportNoUrl ==
    /\ effect' = Effect("url", "none")
    /\ vizRoot' = NoTree
    /\ UNCHANGED << http, tableData, tableBuilt, postInfo, selectedDateFormat,
                    isCompactMode, removeNewlines, sortAsc, sortLog,
                    sortParity, cmpArgs, cmpResult, network, requested, prior >>

\* The mutant of StartExport that leaves out tableData = []
StartExportKeepsTable(pref, url) ==
    /\ selectedDateFormat' = pref.dateFormat
    /\ isCompactMode' = pref.compactMode
    /\ removeNewlines' = pref.escapeNewLine
    /\ tableBuilt' = FALSE
    /\ postInfo' = null
    /\ http' = [readyState |-> "LOADING", response |-> null]
    /\ network' = Open(network, url)
    /\ requested' = << url >>
    /\ prior' = Found(tableBuilt, tableData, network)
    /\ effect' = Quiet
    /\ sortLog' = << >>
    /\ vizRoot' = NoTree
    /\ UNCHANGED << tableData, sortAsc, sortParity, cmpArgs, cmpResult >>

\* The mutant of StartExport that starts every export ascending
StartExportResetsFlag(pref, url) ==
    /\ selectedDateFormat' = pref.dateFormat
    /\ isCompactMode' = pref.compactMode
    /\ removeNewlines' = pref.escapeNewLine
    /\ tableData' = << >>
    /\ tableBuilt' = FALSE
    /\ postInfo' = null
    /\ http' = [readyState |-> "LOADING", response |-> null]
    /\ network' = Open(network, url)
    /\ requested' = << url >>
    /\ prior' = Found(tableBuilt, tableData, network)
    /\ effect' = Quiet
    /\ sortLog' = << >>
    /\ vizRoot' = NoTree
    /\ sortAsc' = TRUE
    /\ UNCHANGED << sortParity, cmpArgs, cmpResult >>

\* startExport() with a url: the preferences are read, the data is reset and
\* fetchData opens and sends the request; open() ends a request that is
\* still in flight, so the one XMLHttpRequest has one pending load at most.
StartExport(pref, url) ==
    /\ selectedDateFormat' = pref.dateFormat
    /\ isCompactMode' = pref.compactMode
    /\ removeNewlines' = pref.escapeNewLine
    /\ tableData' = << >>
    /\ tableBuilt' = FALSE
    /\ postInfo' = null
    /\ http' = [readyState |-> "LOADING", response |-> null]
    /\ network' = Open(network, url)
    /\ requested' = << url >>
    /\ prior' = Found(tableBuilt, tableData, network)
    /\ effect' = Quiet
    /\ sortLog' = << >>
    /\ vizRoot' = NoTree
    /\ UNCHANGED << sortAsc, sortParity, cmpArgs, cmpResult >>

\* The mutant of OnloadFailure that goes on to renderTable after the alert
OnloadFailureRenders(response) ==
    /\ http.readyState = "LOADING"
    /\ response \in network
    /\ IsFailure(response)
    /\ http' = [readyState |-> "DONE", response |-> response]
    /\ network' = network \ {response}
    /\ effect' = Effect("fetch", "none")
    /\ tableBuilt' = TRUE
    /\ vizRoot' = NoTree
    /\ UNCHANGED << tableData, postInfo, selectedDateFormat,
                    isCompactMode, removeNewlines, sortAsc, sortLog,
                    sortParity, cmpArgs, cmpResult, requested, prior >>

\* http.onload with a response that fails the gate: the alert, and return
OnloadFailure(response) ==
    /\ http.readyState = "LOADING"
    /\ response \in network
    /\ IsFailure(response)
    /\ http' = [readyState |-> "DONE", response |-> response]
    /\ network' = network \ {response}
    /\ effect' = Effect("fetch", "none")
    /\ vizRoot' = NoTree
    /\ UNCHANGED << tableData, tableBuilt, postInfo, selectedDateFormat,
                    isCompactMode, removeNewlines, sortAsc, sortLog,
                    sortParity, cmpArgs, cmpResult, requested, prior >>

\* http.onload with a response that passes the gate: the post is extracted,
\* the comments are flattened and renderTable sets tableBuilt.
OnloadSuccess(response) ==
    /\ http.readyState = "LOADING"
    /\ response \in network
    /\ ~IsFailure(response)
    /\ http' = [readyState |-> "DONE", response |-> response]
    /\ network' = network \ {response}
    /\ effect' = Quiet
    /\ prior' = [NoPrior EXCEPT !.pending = prior.pending]
    /\ postInfo' = Some(extractPostInfo(response[1].post))
    /\ tableData' = buildTableData(tableData, response[1].comments, << >>)
    /\ tableBuilt' = TRUE
    /\ sortLog' = << >>
    /\ vizRoot' = NoTree
    /\ UNCHANGED << selectedDateFormat, isCompactMode, removeNewlines, sortAsc,
                    sortParity, cmpArgs, cmpResult, requested >>

----------------------------------------------------------------------------
(* The Sorter *)

\* The mutant of LoopLength that stops at the shorter array
LoopLengthOfShorter(a, b) == IF Len(a) <= Len(b) THEN Len(a) ELSE Len(b)

\* const len = Math.max(a.length, b.length)
LoopLength(a, b) == IF Len(a) >= Len(b) THEN Len(a) ELSE Len(b)

\* The mutant of ElementOrZero that counts a missing segment as the largest
ElementOrLargest(a, i) == IF (i + 1) \in DOMAIN a THEN a[i + 1] ELSE MaxSeg

\* a[i] || 0, for the 0-based index i
ElementOrZero(a, i) == IF (i + 1) \in DOMAIN a THEN a[i + 1] ELSE 0

RECURSIVE CompareArrayFrom(_, _, _)
CompareArrayFrom(a, b, i) ==
    IF i >= LoopLength(a, b) THEN 0
    ELSE IF ElementOrZero(a, i) < ElementOrZero(b, i) THEN -1
    ELSE IF ElementOrZero(a, i) > ElementOrZero(b, i) THEN 1
    ELSE CompareArrayFrom(a, b, i + 1)

compareArray(a, b) == CompareArrayFrom(a, b, 0)

\* The mutant of toLowerCase that keeps the case
toLowerCaseKept(str) == str

\* String.prototype.toLowerCase on the characters of the model
LowerCaseChar(ch) ==
    IF ch = "A" THEN "a" ELSE IF ch = "B" THEN "b" ELSE ch

toLowerCase(str) == [i \in DOMAIN str |-> LowerCaseChar(str[i])]

\* valA < valB on strings: by code units, a proper prefix first
RECURSIVE StringLessFrom(_, _, _)
StringLessFrom(s, t, i) ==
    IF i > Len(t) THEN FALSE
    ELSE IF i > Len(s) THEN TRUE
    ELSE IF CharCode(s[i]) < CharCode(t[i]) THEN TRUE
    ELSE IF CharCode(s[i]) > CharCode(t[i]) THEN FALSE
    ELSE StringLessFrom(s, t, i + 1)

StringLess(s, t) == StringLessFrom(s, t, 1)

\* The properties every object inherits from Object.prototype
ObjectPrototypeProperties ==
    { "constructor", "hasOwnProperty", "isPrototypeOf", "propertyIsEnumerable",
      "toLocaleString", "toString", "valueOf", "__proto__" }

\* column in tableData[0]: an own property or an inherited one
InObject(column, obj) ==
    column \in DOMAIN obj \/ column \in ObjectPrototypeProperties

\* String(a[column]): the string itself for a string field; for an inherited
\* method its source text, the same for every record.
NativeCode == << "[", "d", "e", "]" >>

StringOf(row, column) ==
    IF column \in DOMAIN row THEN row[column] ELSE NativeCode

\* a.dateUtc || 0
DateOrZero(row) == IF row.dateUtc = null THEN 0 ELSE row.dateUtc[1]

\* The mutant of Direction that ignores the flag
DirectionAscending(asc) == 1

\* (sortAsc ? 1 : -1)
Direction(asc) == IF asc THEN 1 ELSE -1

\* if (valA < valB) return sortAsc ? -1 : 1;
\* if (valA > valB) return sortAsc ? 1 : -1; return 0;
CompareStrings(valA, valB, asc) ==
    IF StringLess(valA, valB) THEN -Direction(asc)
    ELSE IF StringLess(valB, valA) THEN Direction(asc)
    ELSE 0

NumericColumns == {"upvotes", "downvotes", "level", "score"}

\* The comparator that sortTable hands to Array.prototype.sort for a column
Comparator(a, b, column, asc) ==
    IF column = "numbering"
    THEN compareArray(NumberingArray(a.numbering), NumberingArray(b.numbering))
             * Direction(asc)
    ELSE IF column = "dateUtc"
    THEN (DateOrZero(a) - DateOrZero(b)) * Direction(asc)
    ELSE IF column \in NumericColumns
    THEN (a[column] - b[column]) * Direction(asc)
    ELSE IF column = "body"
    THEN CompareStrings(toLowerCase(a.body), toLowerCase(b.body), asc)
    ELSE CompareStrings(toLowerCase(StringOf(a, column)),
                        toLowerCase(StringOf(b, column)), asc)

\* Array.prototype.sort is stable (ECMAScript 2019): an element goes behind
\* the elements that do not compare greater than it.
InsertSorted(sorted, row, column, asc) ==
    LET behind == { k \in 0..Len(sorted) :
                      \A j \in 1..k : Comparator(sorted[j], row, column, asc) <= 0 }
        at == CHOOSE k \in behind : \A m \in behind : m <= k
    IN  SubSeq(sorted, 1, at) \o << row >> \o SubSeq(sorted, at + 1, Len(sorted))

RECURSIVE SortFrom(_, _, _, _, _)
SortFrom(data, i, sorted, column, asc) ==
    IF i > Len(data) THEN sorted
    ELSE SortFrom(data, i + 1, InsertSorted(sorted, data[i], column, asc),
                  column, asc)

\* tableData.sort(comparator of the column)
Sort(data, column, asc) == SortFrom(data, 1, << >>, column, asc)

\* The mutant of Toggle that keeps the flag
ToggleForgotten(flag) == flag

\* sortAsc = !sortAsc
Toggle(flag) == ~flag

\* The columns sortTable is called with: the headers of renderTable, the
\* score field, an inherited property and a name no record has.
SortColumns ==
    { "numbering", "level", "body", "author", "dateUtc", "upvotes",
      "downvotes", "score", "toString", "timestamp" }

\* if (!tableBuilt || !tableData.length) return;
\* if (!(column in tableData[0]) && column !== 'body') return;
SortReturnsEarly(column) ==
    IF ~tableBuilt \/ Len(tableData) = 0 THEN TRUE
    ELSE ~InObject(column, tableData[1]) /\ column # "body"

\* The log after a successful sort: its column, the flag it used and the
\* flat sequence it found; when the sort before it was on the same column,
\* the flat sequence that one found too.
Logged(log, column, asc, data) ==
    LET twice == IF log = << >> THEN FALSE ELSE log[1].column = column
    IN  << [column |-> column, asc |-> asc, before |-> data, twice |-> twice,
            first |-> IF twice THEN log[1].before ELSE << >>] >>

\* sortTable(column) that returns early
SortTableNoOp(column) ==
    /\ SortReturnsEarly(column)
    /\ effect' = Quiet
    /\ vizRoot' = NoTree
    /\ UNCHANGED << http, tableData, tableBuilt, postInfo, selectedDateFormat,
                    isCompactMode, removeNewlines, sortAsc, sortLog,
                    sortParity, cmpArgs, cmpResult, network, requested, prior >>

\* sortTable(column) that sorts, flips the flag and renders the table again
SortTable(column) ==
    /\ ~SortReturnsEarly(column)
    /\ tableData' = Sort(tableData, column, sortAsc)
    /\ sortAsc' = Toggle(sortAsc)
    /\ tableBuilt' = TRUE
    /\ sortLog' = Logged(sortLog, column, sortAsc, tableData)
    /\ sortParity' = 1 - sortParity
    /\ prior' = NoPrior
    /\ effect' = Quiet
    /\ vizRoot' = NoTree
    /\ UNCHANGED << http, postInfo, selectedDateFormat, isCompactMode,
                    removeNewlines, cmpArgs, cmpResult, network, requested >>

----------------------------------------------------------------------------
(* The Hierarchy Rebuilder *)

\* The length after which createSnippet cuts the body
SnippetLength == 80

Ellipsis == << ".", ".", "." >>

\* createSnippet(text); the bodies of the model hold no white space to trim
createSnippet(text) ==
    IF text = << >> \/ text = Deleted THEN Deleted
    ELSE IF Len(text) > SnippetLength
    THEN SubSeq(text, 1, SnippetLength) \o Ellipsis
    ELSE text

\* The mutant of ParentIdOf that drops the first segment instead of the last
ParentIdWithoutFirst(fullNum) ==
    LET parts == SplitDot(fullNum)
    IN  IF Len(parts) > 1
        THEN Some(JoinStrings(SubSeq(parts, 2, Len(parts))))
        ELSE null

\* parts.length > 1 ? parts.slice(0, -1).join('.') : null
ParentIdOf(fullNum) ==
    LET parts == SplitDot(fullNum)
    IN  IF Len(parts) > 1
        THEN Some(JoinStrings(SubSeq(parts, 1, Len(parts) - 1)))
        ELSE null

\* A property key that is an array index: the canonical decimal form of an
\* integer below 2^32 - 1.  Every number of at most nine digits is one; the
\* model has no longer key.
IsArrayIndex(key) ==
    /\ key # << >>
    /\ \A i \in DOMAIN key : IsDigit(key[i])
    /\ Len(key) > 1 => key[1] # "0"
    /\ Len(key) < Len(Digits)

\* dict[key] = node.  A dictionary is the sequence of its values in the
\* order in which Object.values lists them: the array-index keys in
\* increasing numeric order first, then the other keys in the order in which
\* they were created; an assignment to an existing key keeps its place.
DictPut(dict, key, node) ==
    IF \E i \in DOMAIN dict : dict[i].id = key
    THEN [i \in DOMAIN dict |-> IF dict[i].id = key THEN node ELSE dict[i]]
    ELSE IF IsArrayIndex(key)
    THEN LET before == { i \in DOMAIN dict :
                           /\ IsArrayIndex(dict[i].id)
                           /\ parseInt(dict[i].id) < parseInt(key) }
         IN  SubSeq(dict, 1, Cardinality(before)) \o << node >>
                 \o SubSeq(dict, Cardinality(before) + 1, Len(dict))
    ELSE Append(dict, node)

DictHas(dict, key) == \E i \in DOMAIN dict : dict[i].id = key

RECURSIVE BuildNodeDictionaryFrom(_, _, _)
BuildNodeDictionaryFrom(data, i, dict) ==
    IF i > Len(data) THEN dict
    ELSE BuildNodeDictionaryFrom(data, i + 1,
             DictPut(dict, data[i].numbering,
                     [id            |-> data[i].numbering,
                      parentId      |-> ParentIdOf(data[i].numbering),
                      score         |-> data[i].score,
                      bodySnippet   |-> createSnippet(data[i].body),
                      fullNumbering |-> data[i].numbering]))

buildNodeDictionary(data) == BuildNodeDictionaryFrom(data, 1, << >>)

\* The mutant of LinkFrom that hangs a node without its parent on the root
RECURSIVE LinkOrphansToRoot(_, _, _)
LinkOrphansToRoot(dict, i, links) ==
    IF i > Len(dict) THEN links
    ELSE LET node == dict[i]
         IN  IF node.parentId = null \/ ~DictHas(dict, node.parentId[1])
             THEN LinkOrphansToRoot(dict, i + 1,
                                    [links EXCEPT ![<< >>] = Append(@, node.id)])
             ELSE LinkOrphansToRoot(dict, i + 1,
                      [links EXCEPT ![node.parentId[1]] = Append(@, node.id)])

\* The second forEach of buildHierarchyFromDict, from the i-th value on:
\* links maps "root" (<< >>) and every id to the list of its children's ids.
RECURSIVE LinkFrom(_, _, _)
LinkFrom(dict, i, links) ==
    IF i > Len(dict) THEN links
    ELSE LET node == dict[i]
         IN  IF node.parentId = null
             THEN LinkFrom(dict, i + 1,
                           [links EXCEPT ![<< >>] = Append(@, node.id)])
             ELSE IF DictHas(dict, node.parentId[1])
             THEN LinkFrom(dict, i + 1,
                           [links EXCEPT ![node.parentId[1]] = Append(@, node.id)])
             ELSE LinkFrom(dict, i + 1, links)

\* The mutant of computeCounts that counts the node itself as well
RECURSIVE computeCountsWithSelf(_, _)
computeCountsWithSelf(links, id) ==
    LET RECURSIVE Sum(_)
        Sum(k) == IF k = 0 THEN 0
                  ELSE Sum(k - 1) + computeCountsWithSelf(links, links[id][k])
    IN  1 + Sum(Len(links[id]))

\* computeCounts(node): the value it returns and stores in node.count
RECURSIVE computeCounts(_, _)
computeCounts(links, id) ==
    LET RECURSIVE Sum(_)
        Sum(k) == IF k = 0 THEN 0
                  ELSE Sum(k - 1) + computeCounts(links, links[id][k])
    IN  IF Len(links[id]) = 0 THEN 1 ELSE Sum(Len(links[id]))

\* The ids that computeCounts(root) visits
RECURSIVE ReachableFrom(_, _)
ReachableFrom(links, id) ==
    {id} \cup UNION { ReachableFrom(links, links[id][k]) : k \in DOMAIN links[id] }

\* buildHierarchyFromDict(dict): the root and the nodes of the dictionary,
\* each with the ids of its children and its count; a node that
\* computeCounts does not reach keeps the count 1 it was initialised with.
buildHierarchyFromDict(dict) ==
    LET ids == { dict[i].id : i \in DOMAIN dict }
        links == LinkFrom(dict, 1, [id \in ids \cup {<< >>} |-> << >>])
        reached == ReachableFrom(links, << >>)
    IN  [root  |-> [name |-> "Post", children |-> links[<< >>],
                    count |-> computeCounts(links, << >>)],
         nodes |-> [id \in ids |->
                      LET node == dict[CHOOSE i \in DOMAIN dict : dict[i].id = id]
                      IN  [id            |-> node.id,
                           parentId      |-> node.parentId,
                           score         |-> node.score,
                           bodySnippet   |-> node.bodySnippet,
                           fullNumbering |-> node.fullNumbering,
                           children      |-> links[id],
                           count         |-> IF id \in reached
                                             THEN computeCounts(links, id)
                                             ELSE 1]]]

\* initVisualization(): the hierarchy of the current flat sequence is built
\* and handed to createCollapsibleTree.  root is local to the handler:
\* vizRoot holds it until the next handler runs.
InitVisualization ==
    /\ vizRoot' = [built |-> TRUE,
                   tree |-> buildHierarchyFromDict(buildNodeDictionary(tableData))]
    /\ effect' = Quiet
    /\ UNCHANGED << http, tableData, tableBuilt, postInfo, selectedDateFormat,
                    isCompactMode, removeNewlines, sortAsc, sortLog, sortParity,
                    cmpArgs, cmpResult, network, requested, prior >>

----------------------------------------------------------------------------
(* The exports of the table *)

\* if (!tableBuilt || !tableData.length)
DownloadRefused(built, data) == ~built \/ Len(data) = 0

\* The mutant of CopyRefused that copies whatever the state
CopyNeverRefused(built) == FALSE

\* if (!tableBuilt)
CopyRefused(built) == ~built

\* downloadCSV(): the alert, or the click on a link to the CSV file.  The
\* text of the file is not part of the model.
DownloadCSV ==
    /\ effect' = IF DownloadRefused(tableBuilt, tableData)
                 THEN Effect("download", "none")
                 ELSE Effect("none", "file")
    /\ vizRoot' = NoTree
    /\ UNCHANGED << http, tableData, tableBuilt, postInfo, selectedDateFormat,
                    isCompactMode, removeNewlines, sortAsc, sortLog, sortParity,
                    cmpArgs, cmpResult, network, requested, prior >>

\* copyTableAsHTML(): the alert, or the table element (which renderTable has
\* created when tableBuilt is set) goes to the clipboard and its alert
\* follows.  The markup is not part of the model.
CopyTableAsHTML ==
    /\ effect' = IF CopyRefused(tableBuilt)
                 THEN Effect("copy", "none")
                 ELSE Effect("copied", "clipboard")
    /\ vizRoot' = NoTree
    /\ UNCHANGED << http, tableData, tableBuilt, postInfo, selectedDateFormat,
                    isCompactMode, removeNewlines, sortAsc, sortLog, sortParity,
                    cmpArgs, cmpResult, network, requested, prior >>

----------------------------------------------------------------------------
(* The program *)

Export ==
    \E pref \in Preferences, url \in ExportResponses : StartExport(pref, url)

LoadFailure ==
    /\ http.readyState = "LOADING"
    /\ \E response \in network : OnloadFailure(response)

LoadSuccess ==
    /\ http.readyState = "LOADING"
    /\ \E response \in network : OnloadSuccess(response)

SortIgnored == \E column \in SortColumns : SortTableNoOp(column)

SortDone == \E column \in SortColumns : SortTable(column)

Next ==
    \/ StartExportNoUrl
    \/ Export
    \/ LoadFailure
    \/ LoadSuccess
    \/ SortIgnored
    \/ SortDone
    \/ InitVisualization
    \/ DownloadCSV
    \/ CopyTableAsHTML

Spec == Init /\ [][Next]_vars

----------------------------------------------------------------------------
(* The Hierarchical Comparator on numberings of up to MaxLen segments *)

\* Segments on both sides of the step from one digit to two
SegmentValues == {1, 2, MaxSeg - 1, MaxSeg}

NumberingArrays == UNION { [1..n -> SegmentValues] : n \in 1..MaxLen }

InitCmp ==
    /\ Loaded
    /\ cmpArgs \in NumberingArrays \X NumberingArrays
    /\ cmpResult = << >>

\* The comparator of the numbering column on the numbering strings of two
\* records, as sortTable calls it, in both orders
CompareNumberings ==
    /\ cmpResult = << >>
    /\ cmpResult' = << compareArray(NumberingArray(JoinDot(cmpArgs[1])),
                                    NumberingArray(JoinDot(cmpArgs[2]))),
                       compareArray(NumberingArray(JoinDot(cmpArgs[2])),
                                    NumberingArray(JoinDot(cmpArgs[1]))) >>
    /\ UNCHANGED << http, tableData, tableBuilt, postInfo, selectedDateFormat,
                    isCompactMode, removeNewlines, sortAsc, vizRoot, sortLog,
                    sortParity, cmpArgs, network, requested, effect, prior >>

NextCmp == CompareNumberings

SpecCmp == InitCmp /\ [][NextCmp]_vars

----------------------------------------------------------------------------
(* The Flattener on every comment tree of up to MaxNodes nodes *)

FlatStart ==
    /\ http.readyState = "UNSENT"
    /\ \E pref \in Preferences, url \in FlatResponses : StartExport(pref, url)

FlatFailure ==
    /\ http.readyState = "LOADING"
    /\ \E response \in network : OnloadFailure(response)

FlatSuccess ==
    /\ http.readyState = "LOADING"
    /\ \E response \in network : OnloadSuccess(response)

NextFlat == FlatStart \/ FlatFailure \/ FlatSuccess

SpecFlat == Init /\ [][NextFlat]_vars

----------------------------------------------------------------------------
(* The Hierarchy Rebuilder on flat sequences with and without orphans *)

\* Numberings of three levels; "2.1" and "1.1.1" can lack an ancestor
RebuildNumberings ==
    { << 1 >>, << 2 >>, << 1, 1 >>, << 1, 2 >>, << 2, 1 >>, << 1, 1, 1 >> }

\* The flat sequences of up to MaxRecords records with distinct numberings,
\* in every order, whether the parents are in them or not
RebuildSequences ==
    LET d == CHOOSE c \in CommentData : Has(c, "body") /\ Has(c, "author")
    IN  { [i \in DOMAIN arrs |-> Row(d, arrs[i])] :
            arrs \in { a \in UNION { [1..n -> RebuildNumberings] : n \in 0..MaxRecords } :
                         \A i, j \in DOMAIN a : a[i] = a[j] => i = j } }

\* initVisualization reads the flat sequence from tableData
InitRebuild ==
    /\ http = [readyState |-> "DONE", response |-> null]
    /\ tableData \in RebuildSequences
    /\ tableBuilt = TRUE
    /\ postInfo = null
    /\ selectedDateFormat = "iso8601"
    /\ isCompactMode = FALSE
    /\ removeNewlines = FALSE
    /\ sortAsc = TRUE
    /\ vizRoot = NoTree
    /\ sortLog = << >>
    /\ sortParity = 0
    /\ network = {}
    /\ requested = << >>
    /\ effect = Quiet
    /\ prior = NoPrior
    /\ cmpArgs = << >>
    /\ cmpResult = << >>

NextRebuild == InitVisualization

SpecRebuild == InitRebuild /\ [][NextRebuild]_vars

----------------------------------------------------------------------------
(* What the claims about the Flattener speak of *)

\* The load handler has flattened the response held by the request
Flattened == http.readyState = "DONE" /\ ~IsFailure(http.response)

ResponseComments == http.response[1].comments

RepliesOf(node) ==
    IF HasReplies(node.data) THEN node.data.replies.data.children ELSE << >>

NonStubs(listing) == SelectSeq(listing, LAMBDA node : node.kind # "more")

\* The number of non-stub nodes of a comment tree
RECURSIVE NonStubCount(_)
NonStubCount(listing) ==
    IF listing = << >> THEN 0
    ELSE NonStubCount(Tail(listing))
         + IF Head(listing).kind = "more" THEN 0
           ELSE 1 + NonStubCount(RepliesOf(Head(listing)))

\* The node that a path of sibling positions names, counting the non-stub
\* siblings only, or null
RECURSIVE NodeAt(_, _)
NodeAt(listing, path) ==
    LET siblings == NonStubs(listing)
    IN  IF path = << >> \/ Head(path) \notin DOMAIN siblings THEN null
        ELSE IF Len(path) = 1 THEN Some(siblings[Head(path)])
        ELSE NodeAt(RepliesOf(siblings[Head(path)]), Tail(path))

PathOf(row) == NumberingArray(row.numbering)

IsPrefix(p, q) == Len(p) <= Len(q) /\ SubSeq(q, 1, Len(p)) = p

Parent(path) == SubSeq(path, 1, Len(path) - 1)

HasStubBetweenComments(listing) ==
    \E i \in DOMAIN listing :
        /\ listing[i].kind = "more"
        /\ \E j \in 1..(i - 1) : listing[j].kind = "t1"
        /\ \E j \in (i + 1)..Len(listing) : listing[j].kind = "t1"

\* C1: one pass of buildTableData from the empty prefix on the empty flat
\* sequence emits as many records as the tree has non-stub nodes; the record
\* numbered p is the record of the node found by counting non-stub siblings
\* only, so stubs emit nothing and take no number, and the numbers under one
\* parent are 1..N without a gap.
C1_RecordPerNonStub ==
    Flattened =>
        /\ Len(tableData) = NonStubCount(ResponseComments)
        /\ \A i, j \in DOMAIN tableData :
               tableData[i].numbering = tableData[j].numbering => i = j
        /\ \A i \in DOMAIN tableData :
               LET path == PathOf(tableData[i])
                   node == NodeAt(ResponseComments, path)
               IN  /\ node # null
                   /\ tableData[i] = Row(node[1].data, path)
                   /\ \A k \in 1..path[Len(path)] :
                          \E j \in DOMAIN tableData :
                              PathOf(tableData[j]) = Append(Parent(path), k)

\* C1's case: a stub between two comments of one listing, and a nested reply
C1_Witness ==
    /\ Flattened
    /\ HasStubBetweenComments(ResponseComments)
    /\ \E i \in DOMAIN tableData : tableData[i].level > 1
    /\ \E i \in DOMAIN tableData : tableData[i].numbering = << "2" >>
    /\ Len(tableData) < Len(ResponseComments) + 1

\* C2: the level of every record is the number of dot-separated segments of
\* its numbering, every segment is a positive integer in its decimal form,
\* and a record of level > 1 has in the flat sequence the record whose
\* numbering is its own without the last segment, one level up.
C2_LevelAndParent ==
    \A i \in DOMAIN tableData :
        LET row == tableData[i]
            parts == SplitDot(row.numbering)
            path == PathOf(row)
        IN  /\ row.level = Len(parts)
            /\ row.level >= 1
            /\ \A k \in DOMAIN path : path[k] >= 1
            /\ JoinDot(path) = row.numbering
            /\ row.level > 1 =>
                   \E j \in DOMAIN tableData :
                       /\ tableData[j].numbering
                              = JoinStrings(SubSeq(parts, 1, Len(parts) - 1))
                       /\ tableData[j].level = row.level - 1
                       /\ row.numbering
                              = tableData[j].numbering \o << "." >>
                                    \o parts[Len(parts)]

\* C2's case: a record of level 3 has been emitted
C2_Witness ==
    /\ Flattened
    /\ \E i \in DOMAIN tableData :
           tableData[i].level > 2 /\ Len(SplitDot(tableData[i].numbering)) > 2

\* C3: the records are in pre-order: a record comes before the records of its
\* descendants, the records of a subtree are contiguous, and the subtree of a
\* sibling comes before the record of the next sibling.
C3_PreOrder ==
    Flattened =>
        \A i, j \in DOMAIN tableData :
            LET p == PathOf(tableData[i])
                q == PathOf(tableData[j])
            IN  /\ (IsPrefix(p, q) /\ p # q) => i < j
                /\ (IsPrefix(p, q) /\ i < j) =>
                       \A k \in i..j : IsPrefix(p, PathOf(tableData[k]))
                /\ (Parent(p) = Parent(q) /\ p[Len(p)] < q[Len(q)]) =>
                       /\ i < j
                       /\ \A k \in DOMAIN tableData :
                              IsPrefix(p, PathOf(tableData[k])) => k < j

\* C3's case: a comment with a reply, followed by a sibling
C3_Witness ==
    /\ Flattened
    /\ \E i, j, k \in DOMAIN tableData :
           /\ i < j /\ j < k
           /\ tableData[i].numbering = << "1" >>
           /\ tableData[j].numbering = << "1", ".", "1" >>
           /\ tableData[k].numbering = << "2" >>

----------------------------------------------------------------------------
(* What the claims about the comparator and the Sorter speak of *)

\* The k-th segment of a numbering, 0 when it has none
Segment(arr, k) == IF k \in DOMAIN arr THEN arr[k] ELSE 0

\* The sign that segment-by-segment numeric comparison gives
NumericOrder(a, b) ==
    LET differ == { k \in 1..(Len(a) + Len(b)) : Segment(a, k) # Segment(b, k) }
        first == CHOOSE k \in differ : \A m \in differ : k <= m
    IN  IF differ = {} THEN 0
        ELSE IF Segment(a, first) < Segment(b, first) THEN -1 ELSE 1

CompareStringsOf(a, b) ==
    compareArray(NumberingArray(JoinDot(a)), NumberingArray(JoinDot(b)))

\* C4: on numberings with positive segments the comparator returns -1, 0 or
\* 1, is antisymmetric and transitive, returns 0 for equal numberings only,
\* orders by the numeric value of the first segment that differs with a
\* missing segment counted as 0, so that a numbering comes before its
\* descendants, "2" before "2.1" and "2.9" before "2.10".
C4_ComparatorTotalOrder ==
    /\ CompareStringsOf(<< 2, 9 >>, << 2, 10 >>) = -1
    /\ CompareStringsOf(<< 2 >>, << 2, 1 >>) = -1
    /\ cmpResult # << >> =>
           LET a == cmpArgs[1]
               b == cmpArgs[2]
           IN  /\ cmpResult[1] \in {-1, 0, 1}
               /\ cmpResult[2] = -cmpResult[1]
               /\ cmpResult[1] = 0 <=> a = b
               /\ cmpResult[1] = NumericOrder(a, b)
               /\ (IsPrefix(a, b) /\ a # b) => cmpResult[1] = -1
               /\ \A c \in NumberingArrays :
                      (cmpResult[1] <= 0 /\ CompareStringsOf(b, c) <= 0)
                          => CompareStringsOf(a, c) <= 0

\* C4's case: "2.9" against "2.10", which the text of the strings orders the
\* other way round
C4_Witness ==
    /\ cmpArgs = << << 2, 9 >>, << 2, 10 >> >>
    /\ cmpResult = << -1, 1 >>
    /\ StringLess(JoinDot(cmpArgs[2]), JoinDot(cmpArgs[1]))

RecordFields ==
    { "numbering", "level", "body", "author", "upvotes", "downvotes", "score",
      "dateUtc" }

\* The order of two records under the rule of a column, without direction
KeyOrder(a, b, column) == Comparator(a, b, column, TRUE)

IsOrdered(data, column, asc) ==
    \A i, j \in DOMAIN data :
        i < j => IF asc THEN KeyOrder(data[i], data[j], column) <= 0
                 ELSE KeyOrder(data[i], data[j], column) >= 0

Position(data, row) == CHOOSE i \in DOMAIN data : data[i] = row

\* C5: the one flag is ascending exactly when an even number of sorts has
\* succeeded since page load, so the k-th successful sort is ascending
\* exactly when k is odd; every successful sort ordered the flat sequence in
\* the direction the flag had and flipped it, whichever its column and the
\* column of the sort before it.
C5_DirectionAlternates ==
    /\ sortAsc = (sortParity = 0)
    /\ sortLog # << >> =>
           /\ sortLog[1].asc = ~sortAsc
           /\ sortLog[1].asc = (sortParity = 1)
           /\ IsOrdered(tableData, sortLog[1].column, sortLog[1].asc)

\* C5's case: a descending sort right after a sort on another column, with
\* records the column tells apart
C5_Witness ==
    /\ sortLog # << >>
    /\ ~sortLog[1].asc
    /\ ~sortLog[1].twice
    /\ sortLog[1].before # tableData
    /\ \E i, j \in DOMAIN tableData :
           i < j /\ KeyOrder(tableData[i], tableData[j], sortLog[1].column) > 0

\* C6 as claimed: a sortTable call changes neither the order of the flat
\* sequence nor the flag when the flat sequence is empty, when the table is
\* not built, or when the column is no field of a record and is not 'body'.
C6_NoOpAsClaimed ==
    [][ \A column \in SortColumns :
            ( /\ SortTableNoOp(column) \/ SortTable(column)
              /\ \/ Len(tableData) = 0
                 \/ ~tableBuilt
                 \/ column \notin RecordFields \cup {"body"} )
                => (tableData' = tableData /\ sortAsc' = sortAsc) ]_vars

SortedTwice == IF sortLog = << >> THEN FALSE ELSE sortLog[1].twice

\* C7 as claimed: two sorts in a row on one column restore the original
\* relative order of every pair of records that the column tells apart.
C7_InvolutionAsClaimed ==
    SortedTwice =>
        \A i, j \in DOMAIN sortLog[1].first :
            LET a == sortLog[1].first[i]
                b == sortLog[1].first[j]
            IN  (i < j /\ KeyOrder(a, b, sortLog[1].column) # 0)
                    => Position(tableData, a) < Position(tableData, b)

\* C7, amended: two sorts in a row on one column restore the flag and keep
\* the records; every pair that compares equal under the column's rule is in
\* its original relative order, and every pair that compares unequal is in
\* the reverse of the order the first sort gave it, whatever its original
\* order was.
C7_TwiceOnOneColumn ==
    SortedTwice =>
        LET first == sortLog[1].first
            between == sortLog[1].before
            column == sortLog[1].column
        IN  /\ sortAsc = ~sortLog[1].asc
            /\ Len(tableData) = Len(first)
            /\ { tableData[i] : i \in DOMAIN tableData }
                   = { first[i] : i \in DOMAIN first }
            /\ \A i, j \in DOMAIN first :
                   (i < j /\ KeyOrder(first[i], first[j], column) = 0)
                       => Position(tableData, first[i]) < Position(tableData, first[j])
            /\ \A i, j \in DOMAIN between :
                   (i < j /\ KeyOrder(between[i], between[j], column) # 0)
                       => Position(tableData, between[j])
                              < Position(tableData, between[i])

\* C7's case: after the two sorts a pair that compares equal and a pair that
\* compares unequal, the latter not in its original order
C7_Witness ==
    /\ SortedTwice
    /\ \E i, j \in DOMAIN sortLog[1].first :
           /\ i < j
           /\ KeyOrder(sortLog[1].first[i], sortLog[1].first[j],
                       sortLog[1].column) = 0
    /\ \E i, j \in DOMAIN sortLog[1].first :
           /\ i < j
           /\ KeyOrder(sortLog[1].first[i], sortLog[1].first[j],
                       sortLog[1].column) # 0
           /\ Position(tableData, sortLog[1].first[j])
                  < Position(tableData, sortLog[1].first[i])

----------------------------------------------------------------------------
(* What the claims about the Hierarchy Rebuilder speak of *)

Root == << >>

TreeIds == DOMAIN vizRoot.tree.nodes

ChildrenOf(id) ==
    IF id = Root THEN vizRoot.tree.root.children
    ELSE vizRoot.tree.nodes[id].children

CountOf(id) ==
    IF id = Root THEN vizRoot.tree.root.count ELSE vizRoot.tree.nodes[id].count

TreeLinks == [id \in TreeIds \cup {Root} |-> ChildrenOf(id)]

\* How often id is a child, over the root and all nodes
Occurrences(id) ==
    LET RECURSIVE Total(_)
        Total(parents) ==
            IF parents = {} THEN 0
            ELSE LET p == CHOOSE x \in parents : TRUE
                 IN  Cardinality({ k \in DOMAIN ChildrenOf(p) : ChildrenOf(p)[k] = id })
                         + Total(parents \ {p})
    IN  Total(TreeIds \cup {Root})

\* The numbering without its last segment, the root for a single segment
ExpectedParent(id) ==
    IF Len(PathOf([numbering |-> id])) = 1 THEN Root
    ELSE JoinDot(Parent(PathOf([numbering |-> id])))

\* C8: the hierarchy built from the flat sequence, in whatever order the
\* Sorter left it, has one node per record besides the root; every record is
\* a child exactly once, of the root when its numbering has one segment and
\* else of the node whose id is its numbering without the last segment, and
\* every node is reached from the root.
C8_OneNodePerRecord ==
    vizRoot.built =>
        /\ TreeIds = { tableData[i].numbering : i \in DOMAIN tableData }
        /\ Cardinality(TreeIds) = Len(tableData)
        /\ \A p \in TreeIds \cup {Root} :
               \A k \in DOMAIN ChildrenOf(p) : ChildrenOf(p)[k] \in TreeIds
        /\ \A id \in TreeIds :
               /\ Occurrences(id) = 1
               /\ \E k \in DOMAIN ChildrenOf(ExpectedParent(id)) :
                      ChildrenOf(ExpectedParent(id))[k] = id
               /\ vizRoot.tree.nodes[id].id = id
        /\ ReachableFrom(TreeLinks, Root) = TreeIds \cup {Root}

\* C8's case: a hierarchy built from a flat sequence that a sort has taken
\* out of pre-order, with a top-level comment that is not the first and has
\* a reply
C8_Witness ==
    /\ vizRoot.built
    /\ sortLog # << >>
    /\ tableData[1].level > 1
    /\ \E id \in TreeIds : ExpectedParent(id) = << "2" >>

\* C9 as claimed, for the nodes of the records: the count of a node is the
\* number of nodes of its subtree, itself included (1 for a leaf, 1 plus the
\* number of its descendants for an internal node).
C9_CountIsSubtreeSize ==
    vizRoot.built =>
        \A id \in TreeIds :
            CountOf(id) = Cardinality(ReachableFrom(TreeLinks, id))

\* C10 as claimed: the children of every node, the root included, are in the
\* order in which their records appear in the flat sequence.
C10_ChildrenInOrderOfAppearance ==
    vizRoot.built =>
        \A p \in TreeIds \cup {Root} :
            \A k, m \in DOMAIN ChildrenOf(p) :
                k < m =>
                    \E i, j \in DOMAIN tableData :
                        /\ i < j
                        /\ tableData[i].numbering = ChildrenOf(p)[k]
                        /\ tableData[j].numbering = ChildrenOf(p)[m]

----------------------------------------------------------------------------
(* What the claims about orphans, the life cycle and the exports speak of *)

TableIds == { tableData[i].numbering : i \in DOMAIN tableData }

\* Every proper prefix of the numbering is the numbering of a record
ChainPresent(id) ==
    LET path == PathOf([numbering |-> id])
    IN  \A k \in 1..(Len(path) - 1) : JoinDot(SubSeq(path, 1, k)) \in TableIds

ParentPresent(id) ==
    ExpectedParent(id) = Root \/ ExpectedParent(id) \in TableIds

\* C11: the rebuild of a flat sequence in which a record lacks its parent
\* completes; a record is a child of its parent's node, once, when its parent
\* is present and is no child of any node otherwise; the records reached from
\* the root are exactly those whose whole ancestor chain is present.
C11_OrphansOmitted ==
    vizRoot.built =>
        /\ TreeIds = TableIds
        /\ \A id \in TableIds :
               /\ ParentPresent(id) =>
                      /\ Occurrences(id) = 1
                      /\ \E k \in DOMAIN ChildrenOf(ExpectedParent(id)) :
                             ChildrenOf(ExpectedParent(id))[k] = id
               /\ ~ParentPresent(id) => Occurrences(id) = 0
               /\ ChainPresent(id) <=> id \in ReachableFrom(TreeLinks, Root)

\* C11's case: a rebuild of "2.1" without "2", next to a reply with its parent
C11_Witness ==
    /\ vizRoot.built
    /\ << "2", ".", "1" >> \in TableIds
    /\ << "2" >> \notin TableIds
    /\ << "2", ".", "1" >> \notin ReachableFrom(TreeLinks, Root)
    /\ \E id \in TableIds :
           /\ ExpectedParent(id) # Root
           /\ id \in ReachableFrom(TreeLinks, Root)

\* The last export ended in a fetch failure
FailedExport == http.readyState = "DONE" /\ IsFailure(http.response)

\* The step of the load handler on a response that fails the gate
FailureStep ==
    /\ http.readyState = "LOADING"
    /\ http'.readyState = "DONE"
    /\ IsFailure(http'.response)

\* C12 as claimed: after an export that ended in a fetch failure, the table
\* that was built before that export was started is still held, with its
\* records and its post record.
C12_PriorStateKept ==
    (FailedExport /\ prior.built) =>
        /\ tableBuilt
        /\ Len(tableData) = prior.length
        /\ postInfo # null

\* C12, amended: the load handler raises the alert and changes nothing on a
\* response that fails the gate, so the flat sequence, the post record and
\* the table-built flag stay as startExport has reset them: empty, null and
\* false.
C12_FailureLeavesReset ==
    [][ FailureStep =>
            /\ tableData' = tableData /\ tableData' = << >>
            /\ tableBuilt' = tableBuilt /\ tableBuilt' = FALSE
            /\ postInfo' = postInfo /\ postInfo' = null
            /\ sortAsc' = sortAsc
            /\ effect'.alert = "fetch" /\ effect'.output = "none" ]_vars

\* C12's case: a failed export that was started on a table with records
C12_Witness ==
    /\ FailedExport
    /\ effect.alert = "fetch"
    /\ prior.built
    /\ prior.length > 1
    /\ tableData = << >>
    /\ ~tableBuilt
    /\ postInfo = null

\* One pass of the Flattener over the comments of a response
FlattenedFrom(response) == buildTableData(<< >>, response[1].comments, << >>)

SamePass(data, response) ==
    /\ Len(data) = Len(FlattenedFrom(response))
    /\ { data[i] : i \in DOMAIN data }
           = { FlattenedFrom(response)[i] : i \in DOMAIN FlattenedFrom(response) }

\* C13: whatever the interleaving of startExport calls and load events, the
\* only request that can still complete is the last one sent; the response
\* the load handler has acted on is the response to the last request; the
\* flat sequence is empty until then and afterwards holds the records of one
\* pass over that response and no other.
C13_LatestRequestOnly ==
    /\ \A url \in network : requested = << url >>
    /\ Cardinality(network) <= 1
    /\ http.readyState = "LOADING" => network # {} /\ tableData = << >>
    /\ http.readyState = "DONE" =>
           /\ requested = << http.response >>
           /\ network = {}
           /\ IF IsFailure(http.response) THEN tableData = << >> /\ ~tableBuilt
              ELSE SamePass(tableData, requested[1])

\* C13's case: an export was started while a fetch was pending, and the
\* response to it has been flattened
C13_Witness ==
    /\ prior.pending
    /\ http.readyState = "DONE"
    /\ tableBuilt
    /\ Len(tableData) > 1
    /\ tableData = FlattenedFrom(requested[1])

\* C14: in every state the numberings of the flat sequence are unique; the
\* flat sequence is empty while no table is built (before the first export,
\* from each startExport on, after a failure), and with a table built it
\* holds the records of one pass over the response of the request, each
\* once; a sort leaves the records it found, none added and none dropped.
C14_OneFlattenerPass ==
    /\ \A i, j \in DOMAIN tableData :
           tableData[i].numbering = tableData[j].numbering => i = j
    /\ ~tableBuilt => tableData = << >> /\ sortLog = << >>
    /\ tableBuilt =>
           /\ http.readyState = "DONE"
           /\ ~IsFailure(http.response)
           /\ SamePass(tableData, http.response)
    /\ sortLog # << >> =>
           /\ Len(tableData) = Len(sortLog[1].before)
           /\ TableIds = { sortLog[1].before[i].numbering :
                             i \in DOMAIN sortLog[1].before }

\* C14's case: a table of three records that a descending sort has taken
\* out of the order of the pass
C14_Witness ==
    /\ tableBuilt
    /\ Len(tableData) > 2
    /\ sortLog # << >>
    /\ ~sortLog[1].asc
    /\ sortLog[1].before = FlattenedFrom(http.response)
    /\ tableData # FlattenedFrom(http.response)

\* The state of the pipeline and of the request
Pipeline ==
    << http, network, requested, tableData, tableBuilt, postInfo,
       selectedDateFormat, isCompactMode, removeNewlines, sortAsc >>

\* C15: downloadCSV and copyTableAsHTML called while no table is built
\* (before the first export, while a fetch is pending, after a failure)
\* raise their alert, produce neither a file nor clipboard content and
\* change nothing of the pipeline.
C15_NoDataNoExport ==
    [][ ((DownloadCSV \/ CopyTableAsHTML) /\ ~tableBuilt) =>
            /\ effect'.alert \in {"download", "copy"}
            /\ effect'.output = "none"
            /\ Pipeline' = Pipeline ]_vars

\* C15's case: a copy refused while the fetch of an export is pending
C15_Witness ==
    /\ ~tableBuilt
    /\ http.readyState = "LOADING"
    /\ effect = Effect("copy", "none")

\* C16: a step that raises the prompt for the url changes neither the
\* request (no fetch) nor the flat sequence, the post record, the
\* table-built flag, the preferences or the direction flag.
C16_NoUrlNoChange ==
    [][ (StartExportNoUrl \/ effect'.alert = "url") =>
            /\ effect' = Effect("url", "none")
            /\ Pipeline' = Pipeline ]_vars

\* C16's case: the prompt on a built table, after preferences were read and
\* with the flag descending
C16_Witness ==
    /\ effect.alert = "url"
    /\ tableBuilt
    /\ Len(tableData) > 1
    /\ postInfo # null
    /\ isCompactMode
    /\ ~sortAsc

----------------------------------------------------------------------------
(* What the claims about a sort's result, the counts and the flag speak of *)

\* The text with its capitals replaced by small letters
Folded(str) ==
    [i \in DOMAIN str |->
        CASE str[i] = "A" -> "a" [] str[i] = "B" -> "b" [] OTHER -> str[i]]

\* s is t or comes before it, character by character
LexLeq(s, t) ==
    \/ s = t
    \/ \E k \in 0..Len(s) :
           /\ k <= Len(t)
           /\ SubSeq(s, 1, k) = SubSeq(t, 1, k)
           /\ \/ k = Len(s) /\ k < Len(t)
              \/ /\ k < Len(s) /\ k < Len(t)
                 /\ CharCode(s[k + 1]) < CharCode(t[k + 1])

TimestampKey(row) == IF row.dateUtc = null THEN 0 ELSE row.dateUtc[1]

\* The key of a is at most the key of b, by the rule the spec gives the column
KeyLeq(a, b, column) ==
    IF column = "numbering" THEN NumericOrder(PathOf(a), PathOf(b)) <= 0
    ELSE IF column = "dateUtc" THEN TimestampKey(a) <= TimestampKey(b)
    ELSE IF column \in {"upvotes", "downvotes", "level", "score"}
    THEN a[column] <= b[column]
    ELSE LexLeq(Folded(a[column]), Folded(b[column]))

\* C17: after a successful sort on a field of the records the flat sequence
\* holds the records the sort found, each once, with the keys of the column
\* non-decreasing when the flag was ascending and non-increasing when it was
\* descending.
C17_SortedPermutation ==
    (sortLog # << >> /\ sortLog[1].column \in RecordFields) =>
        LET before == sortLog[1].before
            column == sortLog[1].column
        IN  /\ Len(tableData) = Len(before)
            /\ \A i \in DOMAIN before :
                   Cardinality({ k \in DOMAIN tableData : tableData[k] = before[i] })
                       = Cardinality({ k \in DOMAIN before : before[k] = before[i] })
            /\ \A i, j \in DOMAIN tableData :
                   i < j => IF sortLog[1].asc
                            THEN KeyLeq(tableData[i], tableData[j], column)
                            ELSE KeyLeq(tableData[j], tableData[i], column)

\* C17's case: an ascending sort by date has moved a record without a
\* timestamp to the front of three records
C17_Witness ==
    /\ sortLog # << >>
    /\ sortLog[1].column = "dateUtc"
    /\ sortLog[1].asc
    /\ Len(tableData) > 2
    /\ tableData[1].dateUtc = null
    /\ sortLog[1].before[1].dateUtc # null
    /\ tableData[Len(tableData)].dateUtc # null

\* The sum of the counts of the nodes of a list
RECURSIVE CountSum(_)
CountSum(children) ==
    IF children = << >> THEN 0
    ELSE CountOf(Head(children)) + CountSum(Tail(children))

Reversed(seq) == [i \in DOMAIN seq |-> seq[Len(seq) + 1 - i]]

\* C19: after a successful sort on numbering the flat sequence is the
\* pre-order of the Flattener's pass when the flag was ascending and its
\* reverse when it was descending, whatever order the sorts before had left.
C19_NumberingRestoresPreOrder ==
    (sortLog # << >> /\ sortLog[1].column = "numbering") =>
        tableData = IF sortLog[1].asc THEN FlattenedFrom(http.response)
                    ELSE Reversed(FlattenedFrom(http.response))

\* C19's case: an ascending sort on numbering that found three records in
\* neither the pre-order nor its reverse
C19_Witness ==
    /\ sortLog # << >>
    /\ sortLog[1].column = "numbering"
    /\ sortLog[1].asc
    /\ Len(tableData) > 2
    /\ sortLog[1].before # FlattenedFrom(http.response)
    /\ sortLog[1].before # Reversed(FlattenedFrom(http.response))
    /\ tableData = FlattenedFrom(http.response)

\* C20: a step of startExport or of the load handler keeps the flag, and the
\* flag is ascending exactly when the number of successful sorts since page
\* load is even, whatever the number of exports.
C20_FlagSurvivesExport ==
    [][ /\ ( \/ http' # http
             \/ requested' # requested
             \/ http'.readyState = "LOADING"
             \/ effect'.alert \in {"url", "fetch"} ) => sortAsc' = sortAsc
        /\ sortAsc' = (sortParity' = 0) ]_vars

\* C20's case: a table fresh from the load handler, not sorted yet, with the
\* flag descending
C20_Witness ==
    /\ tableBuilt
    /\ http.readyState = "DONE"
    /\ sortLog = << >>
    /\ tableData = FlattenedFrom(http.response)
    /\ Len(tableData) > 1
    /\ ~sortAsc
    /\ sortParity = 1

====
